---- MODULE Spec2Model ----
(***************************************************************************)
(* A model of the request-processing core of a Zato server node:           *)
(*   - _TaskDispatcher (zato/server/base/parallel.py): the resizable pool  *)
(*     of worker threads draining a shared FIFO queue;                     *)
(*   - ZMQSub / ZMQPush / BrokerClient (zato/broker/client.py): the        *)
(*     subscriber loop, the fire-and-forget publisher and their owner;     *)
(*   - ZatoHTTPListener.executeRequest (parallel.py): the per-request      *)
(*     security and dispatch pipeline.                                     *)
(* The three parts share no state, so each has its own specification       *)
(* (SpecPool, SpecBroker, SpecHTTP); the variables of the other parts stay *)
(* at their initial values.                                                *)
(***************************************************************************)
EXTENDS Integers, Sequences, FiniteSets, TLC

(***************************************************************************)
(* Bounds of the model.                                                    *)
(***************************************************************************)
\* most entries the thread table may hold at once
MaxThreads == 2
\* most items (tasks and sentinels) the dispatcher queue may hold at once
MaxQueue == 2
\* tasks the listener adds over a run
MaxTasks == 2
\* setThreadCount calls over a run
MaxCalls == 3
\* largest argument of setThreadCount
MaxCount == 2
\* messages the broker publishes to the subscriber over a run
MaxMsgs == 2
\* BrokerClient.send calls over a run
MaxSends == 2
\* BrokerClient.close calls over a run
MaxCloses == 2
\* tasks the listener queues on the channels at most
MaxChannelTasks == 3
\* dispatches listen makes over a run after a poll that returned no message
MaxSpurious == 2

VARIABLES
    \* ---- _TaskDispatcher ------------------------------------------------
    threads,        \* self.threads: the set of registered thread numbers
    stop_count,     \* self.stop_count
    queue,          \* self.queue: FIFO of tasks (1..) and sentinels (NoneItem)
    mlock,          \* self.thread_mgmt_lock: "free" or its holder
    stc,            \* per caller: the frame of its setThreadCount call
    callers,        \* the threads of the process that call setThreadCount
    wpc,            \* per thread number: where its handlerThread stands
    wtask,          \* per thread number: the task it dequeued (0: none)
    subscribers,    \* running subscriber loops that worker threads started
    \* ---- history of the pool (never read by the operations) --------------
    nCalls,         \* setThreadCount calls begun so far
    lastCount,      \* the argument of the latest setThreadCount call
    nTasks,         \* tasks put on the queue so far (they are 1..nTasks)
    markTasks,      \* nTasks when the latest setThreadCount call began
    serviced,       \* tasks whose task.service has been run to its end
    raisedTasks,    \* tasks whose task.service raised an Exception
    \* ---- ZMQSub ---------------------------------------------------------
    keep_running,   \* self.keep_running
    subPc,          \* where the thread running ZMQSub.listen stands
    subSocket,      \* listen's local socket: "none", "open" or "closed"
    msg,            \* listen's local variable msg
    e,              \* listen's local variable e
    inbox,          \* messages published and not yet received by the socket
    \* ---- ZMQPush --------------------------------------------------------
    pushSocket,     \* self.socket of ZMQPush: "open" or "closed"
    wire,           \* messages the PUSH socket transmitted
    \* ---- history of the broker client (never read by the operations) ----
    nPublished,     \* messages published so far (they are 1..nPublished)
    recvLog,        \* messages socket.recv() returned, in order
    calls,          \* the hook and handler calls made by listen, in order
    transportErr,   \* listen has caught a ZMQError
    closeCalls,     \* close() calls made so far
    lastClose,      \* how the latest close() call ended
    sendCalls,      \* send() calls made so far
    sendReturned,   \* send() calls that returned normally
    sendAttempts,   \* socket.send invocations made so far
    sendWarnings,   \* warnings send() has logged
    \* ---- ParallelServer as the subscriber's message handler -------------
    msgService,     \* per published message: its service field
    invocations,    \* instance.handle calls made: service and payload
    handlerErrors,  \* handler exceptions written to the log by listen
    \* ---- ZatoHTTPListener / ParallelServer -------------------------------
    url_security,   \* ParallelServer.url_security: URI -> its security data
    httpPc,         \* where the task stands: "idle", "received", "tested", "written"
    request,        \* task.request_data and what its collaborators will do
    response,       \* the task's status, headers and written body
    serviceCalls,   \* soap_handler.handle invocations made for the task
    found,          \* executeRequest: the result of the test of line 280
    \* ---- history of the listener (never read by the operations) ----------
    outcome,        \* how the try block of the latest executeRequest ended
    tablesDuring,   \* the tables url_security held while the task was handled
    \* ---- ParallelServer at startup --------------------------------------
    startPc,            \* where after_init stands
    server,             \* after_init's local variable server
    singleton_server,   \* self.singleton_server: whether one was given
    broker_token,       \* self.broker_token
    broker_push_addr,   \* self.broker_push_addr
    broker_pull_addr,   \* self.broker_pull_addr
    singleton_kwargs,   \* the kwargs of the threads running singleton_server.run
    startTrace,         \* the calls after_init made and the warnings it logged
    \* ---- _HTTPServerChannel ----------------------------------------------
    chan_tasks,         \* per channel: self.tasks, its pending tasks
    running_tasks,      \* per channel: self.running_tasks
    dispatcherQueue,    \* the channels waiting in the dispatcher's queue
    chw,                \* per worker: where it stands in a channel's service
    \* ---- history of the channels (never read by the operations) ----------
    servicedBy,         \* per task: the runs of its service (worker, channel, raised)
    nQueued             \* tasks queued so far (they are 1..nQueued)

poolVars == <<threads, stop_count, queue, mlock, stc, callers, wpc, wtask, subscribers,
              nCalls, lastCount, nTasks, markTasks, serviced, raisedTasks>>

brokerVars == <<keep_running, subPc, subSocket, msg, e, inbox, pushSocket, wire,
                nPublished, recvLog, calls, transportErr, closeCalls, lastClose,
                sendCalls, sendReturned, sendAttempts, sendWarnings,
                msgService, invocations, handlerErrors>>

httpVars == <<url_security, httpPc, request, response, serviceCalls, found,
              outcome, tablesDuring>>

startVars == <<startPc, server, singleton_server, broker_token, broker_push_addr,
               broker_pull_addr, singleton_kwargs, startTrace>>

channelVars == <<chan_tasks, running_tasks, dispatcherQueue, chw, servicedBy, nQueued>>

vars == <<poolVars, brokerVars, httpVars, startVars, channelVars>>

(***************************************************************************)
(* _TaskDispatcher                                                         *)
(***************************************************************************)
\* the sentinel put on the queue to stop a worker (Python's None)
NoneItem == 0

\* the threads that may call setThreadCount, and the one that does in
\* ParallelServer.run_forever (line 399)
Callers == {1, 2}
MainThread == 1

\* the values of thread_mgmt_lock: free, or held by a setThreadCount caller or
\* by the handlerThread of a thread number
FreeLock == <<"free", 0>>
CallerLock(c) == <<"caller", c>>
WorkerLock(n) == <<"worker", n>>
ThreadNos == 0 .. (MaxThreads - 1)
Tasks == 1 .. MaxTasks
Counts == 0 .. MaxCount

IdleFrame == [pc |-> "idle", count |-> 0, thread_no |-> 0, running |-> 0, to_stop |-> 0]

Max(a, b) == IF a >= b THEN a ELSE b

\* _TaskDispatcher.__init__ (and the base class's): an empty table, an empty
\* queue, a free lock, stop_count = 0; no thread started.
InitPoolVars ==
    /\ threads = {}
    /\ stop_count = 0
    /\ queue = <<>>
    /\ mlock = FreeLock
    /\ stc = [c \in Callers |-> IdleFrame]
    /\ wpc = [n \in ThreadNos |-> "none"]
    /\ wtask = [n \in ThreadNos |-> 0]
    /\ subscribers = 0
    /\ nCalls = 0
    /\ lastCount = 0
    /\ nTasks = 0
    /\ markTasks = 0
    /\ serviced = {}
    /\ raisedTasks = {}

histUnchanged == UNCHANGED <<nTasks, serviced, raisedTasks>>

\* the pool's operations touch nothing of the other parts, nor change which
\* threads resize the pool
OutsidePool == UNCHANGED <<brokerVars, httpVars, startVars, channelVars, callers>>

\* the listener hands a task to the dispatcher: queue.put(task)
AddTask ==
    /\ OutsidePool
    /\ nTasks < MaxTasks
    /\ Len(queue) < MaxQueue
    /\ nTasks' = nTasks + 1
    /\ queue' = Append(queue, nTasks + 1)
    /\ UNCHANGED <<subscribers, threads, stop_count, mlock, stc, wpc, wtask, nCalls, lastCount,
                   markTasks, serviced, raisedTasks>>

\* a resize that forgets the workers already told to stop
RunningCount_IgnoringStops == Cardinality(threads)

\* running = len(threads) - self.stop_count (line 137)
RunningCount == Cardinality(threads) - stop_count

\* a setThreadCount that does not wait for the lock
STC_Begin_NoLock(c, count) ==
    /\ OutsidePool
    /\ c \in callers
    /\ stc[c].pc = "idle"
    /\ nCalls < MaxCalls
    /\ LET running == RunningCount IN
        /\ Cardinality(threads) + Max(0, count - running) <= MaxThreads
        /\ Len(queue) + Max(0, running - count) <= MaxQueue
        /\ stc' = [stc EXCEPT ![c] = [pc |-> "grow", count |-> count, thread_no |-> 0,
                                      running |-> running, to_stop |-> 0]]
    /\ mlock' = CallerLock(c)
    /\ nCalls' = nCalls + 1
    /\ lastCount' = count
    /\ markTasks' = nTasks
    /\ UNCHANGED <<subscribers, threads, stop_count, queue, wpc, wtask>>
    /\ histUnchanged

\* setThreadCount(count), lines 132-137: take the lock, thread_no = 0,
\* running = len(threads) - stop_count.
\* The two capacity guards keep the table and the queue within the bounds.
STC_Begin(c, count) ==
    /\ OutsidePool
    /\ c \in callers
    /\ stc[c].pc = "idle"
    /\ mlock = FreeLock
    /\ nCalls < MaxCalls
    /\ LET running == RunningCount IN
        /\ Cardinality(threads) + Max(0, count - running) <= MaxThreads
        /\ Len(queue) + Max(0, running - count) <= MaxQueue
        /\ stc' = [stc EXCEPT ![c] = [pc |-> "grow", count |-> count, thread_no |-> 0,
                                      running |-> running, to_stop |-> 0]]
    /\ mlock' = CallerLock(c)
    /\ nCalls' = nCalls + 1
    /\ lastCount' = count
    /\ markTasks' = nTasks
    /\ UNCHANGED <<subscribers, threads, stop_count, queue, wpc, wtask>>
    /\ histUnchanged

\* the smallest thread number >= from that is not in the table (lines 140-141)
RECURSIVE NextFree(_, _)
NextFree(from, table) == IF from \in table THEN NextFree(from + 1, table) ELSE from

\* one turn of "while running < count" (lines 138-155): register the next
\* unused thread number and start its handlerThread; the loop's exit when
\* running >= count.
STC_Grow(c) ==
    /\ OutsidePool
    /\ stc[c].pc = "grow"
    /\ IF stc[c].running < stc[c].count
       THEN LET no == NextFree(stc[c].thread_no, threads) IN
            /\ threads' = threads \cup {no}
            /\ wpc' = [wpc EXCEPT ![no] = "start"]
            /\ stc' = [stc EXCEPT ![c].running = @ + 1, ![c].thread_no = no + 1]
       ELSE /\ stc' = [stc EXCEPT ![c].pc = "shrink"]
            /\ UNCHANGED <<threads, wpc>>
    /\ UNCHANGED <<subscribers, stop_count, queue, mlock, wtask, nCalls, lastCount, markTasks>>
    /\ histUnchanged

\* a shrink that stops one worker fewer than asked
ToStop_OneFewer(running, count) == running - count - 1

\* to_stop = running - count (line 158)
ToStop(running, count) == running - count

\* "if running > count" (lines 156-159): to_stop = running - count,
\* stop_count += to_stop; otherwise straight to the release.
STC_Shrink(c) ==
    /\ OutsidePool
    /\ stc[c].pc = "shrink"
    /\ IF stc[c].running > stc[c].count
       THEN /\ stop_count' = stop_count + ToStop(stc[c].running, stc[c].count)
            /\ stc' = [stc EXCEPT ![c].to_stop = ToStop(stc[c].running, stc[c].count),
                                  ![c].pc = "put"]
       ELSE /\ stc' = [stc EXCEPT ![c].pc = "release"]
            /\ UNCHANGED stop_count
    /\ UNCHANGED <<subscribers, threads, queue, mlock, wpc, wtask, nCalls, lastCount, markTasks>>
    /\ histUnchanged

\* a put that enqueues two sentinels for one worker to stop
PutSentinel_Twice(q) == Append(Append(q, NoneItem), NoneItem)

\* what queue.put(None) leaves in the queue (line 161)
PutSentinel(q) == Append(q, NoneItem)

\* one turn of "for n in range(to_stop)" (lines 160-162)
STC_Put(c) ==
    /\ OutsidePool
    /\ stc[c].pc = "put"
    /\ IF stc[c].to_stop > 0
       THEN /\ queue' = PutSentinel(queue)
            /\ stc' = [stc EXCEPT ![c].to_stop = @ - 1, ![c].running = @ - 1]
       ELSE /\ stc' = [stc EXCEPT ![c].pc = "release"]
            /\ UNCHANGED queue
    /\ UNCHANGED <<subscribers, threads, stop_count, mlock, wpc, wtask, nCalls, lastCount, markTasks>>
    /\ histUnchanged

\* finally: mlock.release() (lines 163-164)
STC_Release(c) ==
    /\ OutsidePool
    /\ stc[c].pc = "release"
    /\ mlock' = FreeLock
    /\ stc' = [stc EXCEPT ![c] = IdleFrame]
    /\ UNCHANGED <<subscribers, threads, stop_count, queue, wpc, wtask, nCalls, lastCount, markTasks>>
    /\ histUnchanged

\* handlerThread, lines 173-178: the new thread creates its BrokerClient and
\* starts its subscriber (a thread running ZMQSub.listen), then enters the
\* loop.
HandlerStart(n) ==
    /\ OutsidePool
    /\ wpc[n] = "start"
    /\ wpc' = [wpc EXCEPT ![n] = "loop"]
    /\ subscribers' = subscribers + 1
    /\ UNCHANGED <<threads, stop_count, queue, mlock, stc, wtask, nCalls, lastCount,
                   markTasks>>
    /\ histUnchanged

\* handlerThread, lines 173-178, when BrokerClient(...) or start_subscriber()
\* raises: the statements stand before the try of line 181, so the exception
\* ends the thread without the finally clause being run; the thread's entry
\* in the table and stop_count are left as they are.
HandlerStartFails(n) ==
    /\ OutsidePool
    /\ wpc[n] = "start"
    /\ wpc' = [wpc EXCEPT ![n] = "dead"]
    /\ UNCHANGED <<subscribers, threads, stop_count, queue, mlock, stc, wtask, nCalls,
                   lastCount, markTasks>>
    /\ histUnchanged

\* lines 182-186: while threads.get(thread_no): task = self.queue.get()
\* (blocks while the queue is empty); None breaks out of the loop, towards
\* the finally clause.
HandlerGet(n) ==
    /\ OutsidePool
    /\ wpc[n] = "loop"
    /\ IF n \in threads
       THEN /\ queue # <<>>
            /\ queue' = Tail(queue)
            /\ IF Head(queue) = NoneItem
               THEN /\ wpc' = [wpc EXCEPT ![n] = "exit"]
                    /\ UNCHANGED wtask
               ELSE /\ wpc' = [wpc EXCEPT ![n] = "service"]
                    /\ wtask' = [wtask EXCEPT ![n] = Head(queue)]
       ELSE /\ wpc' = [wpc EXCEPT ![n] = "exit"]
            /\ UNCHANGED <<queue, wtask>>
    /\ UNCHANGED <<subscribers, threads, stop_count, mlock, stc, nCalls, lastCount, markTasks>>
    /\ histUnchanged

\* a worker that lets the task's exception end its loop
AfterTaskException_Escapes == "exit"

\* where a worker goes after task.service(thread_data) raised an Exception:
\* "except Exception, e" logs it and the while loop goes on (lines 189-191)
AfterTaskException == "loop"

\* a worker that drops the task in its hands when a sentinel is waiting
HandlerService_Preempted(n) ==
    /\ OutsidePool
    /\ wpc[n] = "service"
    /\ IF queue # <<>> /\ Head(queue) = NoneItem
       THEN /\ queue' = Tail(queue)
            /\ wpc' = [wpc EXCEPT ![n] = "exit"]
            /\ UNCHANGED <<serviced, raisedTasks>>
       ELSE /\ wpc' = [wpc EXCEPT ![n] = "loop"]
            /\ serviced' = serviced \cup {wtask[n]}
            /\ UNCHANGED <<queue, raisedTasks>>
    /\ wtask' = [wtask EXCEPT ![n] = 0]
    /\ UNCHANGED <<subscribers, threads, stop_count, mlock, stc, nCalls, lastCount,
                   markTasks, nTasks>>

\* lines 187-191: task.service(thread_data) returns, or raises an Exception
\* that is caught and logged.
HandlerService(n) ==
    /\ OutsidePool
    /\ wpc[n] = "service"
    /\ \E raised \in BOOLEAN :
        /\ wpc' = [wpc EXCEPT ![n] = IF raised THEN AfterTaskException ELSE "loop"]
        /\ raisedTasks' = IF raised THEN raisedTasks \cup {wtask[n]} ELSE raisedTasks
    /\ serviced' = serviced \cup {wtask[n]}
    /\ wtask' = [wtask EXCEPT ![n] = 0]
    /\ UNCHANGED <<subscribers, threads, stop_count, queue, mlock, stc, nCalls, lastCount,
                   markTasks, nTasks>>

\* a worker that goes on to deregister without taking the lock
HandlerAcquire_NoLock(n) ==
    /\ OutsidePool
    /\ wpc[n] = "exit"
    /\ wpc' = [wpc EXCEPT ![n] = "dereg"]
    /\ UNCHANGED <<subscribers, threads, stop_count, queue, mlock, stc, wtask, nCalls,
                   lastCount, markTasks>>
    /\ histUnchanged

\* finally: mlock.acquire() (lines 193-194): waits until the lock is free
HandlerAcquire(n) ==
    /\ OutsidePool
    /\ wpc[n] = "exit"
    /\ mlock = FreeLock
    /\ mlock' = WorkerLock(n)
    /\ wpc' = [wpc EXCEPT ![n] = "dereg"]
    /\ UNCHANGED <<subscribers, threads, stop_count, queue, stc, wtask, nCalls, lastCount, markTasks>>
    /\ histUnchanged

\* a worker that deregisters without counting itself as stopped
HandlerDeregister_KeepsCount(n) ==
    /\ OutsidePool
    /\ wpc[n] = "dereg"
    /\ stop_count' = stop_count
    /\ threads' = threads \ {n}
    /\ mlock' = FreeLock
    /\ wpc' = [wpc EXCEPT ![n] = "none"]
    /\ UNCHANGED <<subscribers, queue, stc, wtask, nCalls, lastCount, markTasks>>
    /\ histUnchanged

\* lines 195-200: stop_count -= 1, del threads[thread_no] (a missing key is
\* ignored), release the lock; the thread ends.  Nothing closes the thread's
\* BrokerClient: the subscriber loop it started goes on running.
HandlerDeregister(n) ==
    /\ OutsidePool
    /\ wpc[n] = "dereg"
    /\ stop_count' = stop_count - 1
    /\ threads' = threads \ {n}
    /\ mlock' = FreeLock
    /\ wpc' = [wpc EXCEPT ![n] = "none"]
    /\ UNCHANGED <<subscribers, queue, stc, wtask, nCalls, lastCount, markTasks>>
    /\ histUnchanged

NextPool ==
    \/ AddTask
    \/ \E c \in Callers, count \in Counts : STC_Begin(c, count)
    \/ \E c \in Callers : STC_Grow(c)
    \/ \E c \in Callers : STC_Shrink(c)
    \/ \E c \in Callers : STC_Put(c)
    \/ \E c \in Callers : STC_Release(c)
    \/ \E n \in ThreadNos : HandlerStart(n)
    \/ \E n \in ThreadNos : HandlerGet(n)
    \/ \E n \in ThreadNos : HandlerService(n)
    \/ \E n \in ThreadNos : HandlerAcquire(n)
    \/ \E n \in ThreadNos : HandlerDeregister(n)

\* the pool when a new thread's BrokerClient may fail to be created or started
NextPoolStartFails ==
    \/ NextPool
    \/ \E n \in ThreadNos : HandlerStartFails(n)

(***************************************************************************)
(* ZMQSub, ZMQPush and BrokerClient (zato/broker/client.py)                *)
(***************************************************************************)
\* listen's msg before any message was received: the name is not bound yet
MsgUnbound == 0

\* what msg holds after a logging statement rebound it to its message text
\* ("msg = 'Could not invoke ...'", "msg = 'Caught ZMQError ...'"): a string
\* that is no received message
LogText == -1

Msgs == 1 .. MaxMsgs

\* self.service_store.services: the names it holds, and the names an EXECUTE
\* message may carry in its service field
ServiceStore == {"Foo"}
ServiceNames == {"Foo", "Bar"}
NoService == ""

\* msg.extra of a message: its payload
Extra(m) == <<"extra", m>>

\* a handler that hands the whole message to the service as its payload
SchedulerExecute_RawPayload(m, service, handleRaises) ==
    IF service \notin ServiceStore
    THEN [raised |-> TRUE, invoked |-> <<>>]
    ELSE [raised |-> handleRaises, invoked |-> <<[service |-> service, payload |-> <<m>>]>>]

\* ParallelServer.on_broker_msg_SCHEDULER_EXECUTE (lines 425-436): the lookup
\* of msg.service in the service store raises KeyError for an unknown name;
\* otherwise the class is instantiated and instance.handle(payload=msg.extra,
\* ...) is called, which returns or raises.  Nothing is caught here.
SchedulerExecute(m, service, handleRaises) ==
    IF service \notin ServiceStore
    THEN [raised |-> TRUE, invoked |-> <<>>]
    ELSE [raised |-> handleRaises, invoked |-> <<[service |-> service, payload |-> Extra(m)]>>]

\* Whether a ZMQSub object has a socket attribute.  __init__ sets
\* zmq_context, address, on_message_handler, sub_patterns and keep_running;
\* listen keeps its socket in a local variable; nothing assigns self.socket.
SelfSocketSet == FALSE

\* ZMQSub.__init__ (keep_running defaults to True), ZMQPush.__init__ (the
\* PUSH socket is created and connected), BrokerClient.__init__.
InitBrokerVars ==
    /\ keep_running = TRUE
    /\ subPc = "init"
    /\ subSocket = "none"
    /\ msg = MsgUnbound
    /\ e = "None"
    /\ inbox = <<>>
    /\ pushSocket = "open"
    /\ wire = <<>>
    /\ nPublished = 0
    /\ recvLog = <<>>
    /\ calls = <<>>
    /\ transportErr = FALSE
    /\ closeCalls = 0
    /\ lastClose = "none"
    /\ sendCalls = 0
    /\ sendReturned = 0
    /\ sendAttempts = 0
    /\ sendWarnings = 0
    /\ msgService = [m \in Msgs |-> NoService]
    /\ invocations = <<>>
    /\ handlerErrors = 0

\* the broker client's operations touch nothing of the other parts
OutsideBroker == UNCHANGED <<poolVars, httpVars, startVars, channelVars>>

execUnchanged == UNCHANGED <<msgService, invocations, handlerErrors>>
subHistUnchanged == UNCHANGED <<nPublished, recvLog, calls, transportErr,
                                msgService, invocations, handlerErrors>>
pushUnchanged == UNCHANGED <<pushSocket, wire, sendCalls, sendReturned, sendAttempts, sendWarnings>>

\* the broker publishes an EXECUTE message for some service: it waits at the
\* connected SUB socket
Publish ==
    /\ OutsideBroker
    /\ subSocket = "open"
    /\ nPublished < MaxMsgs
    /\ nPublished' = nPublished + 1
    /\ inbox' = Append(inbox, nPublished + 1)
    /\ \E service \in ServiceNames :
          msgService' = [msgService EXCEPT ![nPublished + 1] = service]
    /\ UNCHANGED <<keep_running, subPc, subSocket, msg, e, recvLog, calls, transportErr,
                   closeCalls, lastClose, invocations, handlerErrors>>
    /\ pushUnchanged

\* BrokerClient.start_subscriber -> ZMQSub.start: a thread runs listen, which
\* creates and connects the SUB socket, subscribes and registers it with a
\* poller (lines 60-69), and arrives at the while test.
SubStart ==
    /\ OutsideBroker
    /\ subPc = "init"
    /\ subPc' = "loop"
    /\ subSocket' = "open"
    /\ UNCHANGED <<keep_running, msg, e, inbox, closeCalls, lastClose>>
    /\ subHistUnchanged
    /\ pushUnchanged

\* "while self.keep_running" (line 71)
SubLoopTest ==
    /\ OutsideBroker
    /\ subPc = "loop"
    /\ subPc' = IF keep_running THEN "poll" ELSE "done"
    /\ UNCHANGED <<keep_running, subSocket, msg, e, inbox, closeCalls, lastClose>>
    /\ subHistUnchanged
    /\ pushUnchanged

\* whether poller.poll() (line 73, no timeout given) returns: it waits, for
\* as long as it takes, until the socket is readable
PollReturns == inbox # <<>>

\* a loop that takes every waiting message off the socket at once and keeps
\* the last
SubPollRecv_Drains ==
    /\ OutsideBroker
    /\ subPc = "poll"
    /\ PollReturns
    /\ msg' = inbox[Len(inbox)]
    /\ inbox' = <<>>
    /\ recvLog' = recvLog \o inbox
    /\ subPc' = "before"
    /\ UNCHANGED <<keep_running, subSocket, e, nPublished, calls, transportErr,
                   closeCalls, lastClose>>
    /\ execUnchanged
    /\ pushUnchanged

\* lines 73-75: poll returns with the socket readable, msg = socket.recv();
\* no exception, so the else clause is next.
SubPollRecv ==
    /\ OutsideBroker
    /\ subPc = "poll"
    /\ PollReturns
    /\ msg' = Head(inbox)
    /\ inbox' = Tail(inbox)
    /\ recvLog' = Append(recvLog, Head(inbox))
    /\ subPc' = "before"
    /\ UNCHANGED <<keep_running, subSocket, e, nPublished, calls, transportErr,
                   closeCalls, lastClose>>
    /\ execUnchanged
    /\ pushUnchanged

\* the turns of the loop that dispatched without having received a message
StaleDispatches == (Len(calls) - 3 * Len(recvLog) + 2) \div 3

\* lines 73-74 when poller.poll() returns and the socket is not readable:
\* "if socks.get(socket) == zmq.POLLIN" is false, nothing is received, no
\* exception was raised, so the else clause is next with msg as the previous
\* turn left it.  When no turn has bound msg yet, reading it at line 81
\* raises UnboundLocalError, which leaves listen and ends the thread.
SubPollNotReadable ==
    /\ OutsideBroker
    /\ subPc = "poll"
    /\ StaleDispatches < MaxSpurious
    /\ subPc' = IF msg = MsgUnbound THEN "dead" ELSE "before"
    /\ UNCHANGED <<keep_running, subSocket, msg, e, inbox, closeCalls, lastClose>>
    /\ subHistUnchanged
    /\ pushUnchanged

\* ZMQSub.close (lines 55-57) run to its end or to its exception: the running
\* flag is cleared, then self.socket.close() -- an AttributeError when the
\* object has no socket attribute.
CloseEnds == IF SelfSocketSet THEN "ok" ELSE "AttributeError"
CloseSocket(sock) == IF SelfSocketSet /\ sock = "open" THEN "closed" ELSE sock

\* a loop that meets a transport error and polls again
SubPollError_Retry ==
    /\ OutsideBroker
    /\ subPc = "poll"
    /\ ~transportErr
    /\ transportErr' = TRUE
    /\ e' = "ZMQError"
    /\ msg' = LogText
    /\ subPc' = "loop"
    /\ UNCHANGED <<keep_running, subSocket, inbox, nPublished, recvLog, calls,
                   closeCalls, lastClose>>
    /\ execUnchanged
    /\ pushUnchanged

\* lines 76-79: poll or recv raises ZMQError: msg is rebound to the log
\* text, the error is logged and self.close() is called.  When close()
\* raises, the exception leaves listen and the thread ends; otherwise the
\* while test is next (and fails, keep_running being False).
SubPollError ==
    /\ OutsideBroker
    /\ subPc = "poll"
    /\ transportErr' = TRUE
    /\ e' = "ZMQError"
    /\ msg' = LogText
    /\ keep_running' = FALSE
    /\ closeCalls' = closeCalls + 1
    /\ lastClose' = CloseEnds
    /\ subSocket' = CloseSocket(subSocket)
    /\ subPc' = IF CloseEnds = "ok" THEN "loop" ELSE "dead"
    /\ UNCHANGED <<inbox, nPublished, recvLog, calls>>
    /\ execUnchanged
    /\ pushUnchanged

\* line 81: self.on_before_msg_handler(msg)
SubBefore ==
    /\ OutsideBroker
    /\ subPc = "before"
    /\ calls' = Append(calls, [hook |-> "before", msg |-> msg, e |-> "None", raised |-> FALSE])
    /\ subPc' = "handler"
    /\ UNCHANGED <<keep_running, subSocket, msg, e, inbox, nPublished, recvLog,
                   transportErr, closeCalls, lastClose>>
    /\ execUnchanged
    /\ pushUnchanged

\* a loop that lets the handler's exception out of listen
SubPcAfterHandlerException_Escapes == "dead"

\* where listen goes after on_message_handler raised: "except Exception, e"
\* logs and falls through to the post-hook (lines 85-89)
SubPcAfterHandlerException == "after"

\* what msg holds after the except clause of lines 85-87, which assigns the
\* log template to msg before formatting it
MsgAfterHandlerException(m) == LogText

\* the service field of the message listen's msg holds
ServiceOf(m) == IF m \in Msgs THEN msgService[m] ELSE NoService

\* lines 82-87: e = None; self.on_message_handler(msg), the server's handler
\* of EXECUTE messages, returns or raises an Exception, which is bound to e
\* and logged.
SubHandler ==
    /\ OutsideBroker
    /\ subPc = "handler"
    /\ \E handleRaises \in BOOLEAN :
        LET done == SchedulerExecute(msg, ServiceOf(msg), handleRaises)
            raises == done.raised
        IN  /\ calls' = Append(calls, [hook |-> "handler", msg |-> msg, e |-> "None", raised |-> raises])
            /\ e' = IF raises THEN "Exception" ELSE "None"
            /\ msg' = IF raises THEN MsgAfterHandlerException(msg) ELSE msg
            /\ subPc' = IF raises THEN SubPcAfterHandlerException ELSE "after"
            /\ invocations' = invocations \o done.invoked
            /\ handlerErrors' = handlerErrors + (IF raises THEN 1 ELSE 0)
    /\ UNCHANGED <<keep_running, subSocket, inbox, nPublished, recvLog, transportErr,
                   closeCalls, lastClose, msgService>>
    /\ pushUnchanged

\* line 89: self.on_after_msg_handler(msg, e), then back to the while test
SubAfter ==
    /\ OutsideBroker
    /\ subPc = "after"
    /\ calls' = Append(calls, [hook |-> "after", msg |-> msg, e |-> e, raised |-> FALSE])
    /\ subPc' = "loop"
    /\ UNCHANGED <<keep_running, subSocket, msg, e, inbox, nPublished, recvLog,
                   transportErr, closeCalls, lastClose>>
    /\ execUnchanged
    /\ pushUnchanged

\* BrokerClient.close (lines 129-131), called by the client's owner:
\* self._push.close() logs and closes the PUSH socket, then self._sub.close().
BrokerClientClose ==
    /\ OutsideBroker
    /\ closeCalls < MaxCloses
    /\ pushSocket' = "closed"
    /\ keep_running' = FALSE
    /\ closeCalls' = closeCalls + 1
    /\ lastClose' = CloseEnds
    /\ subSocket' = CloseSocket(subSocket)
    /\ UNCHANGED <<subPc, msg, e, inbox, wire, sendCalls, sendReturned, sendAttempts,
                   sendWarnings>>
    /\ subHistUnchanged

\* a send that tries once more after a transport error
SendAttemptsOnError_Retry == 1 + 1

\* socket.send invocations of one send() call whose first one raised
\* ZMQError: the except clause only logs (lines 105-107)
SendAttemptsOnError == 1

\* BrokerClient.send -> ZMQPush.send (lines 102-107, 126-127):
\* self.socket.send(msg) transmits, or raises ZMQError (always so on a closed
\* socket), which is logged as a warning; send returns normally either way.
BrokerClientSend(m) ==
    /\ OutsideBroker
    /\ sendCalls < MaxSends
    /\ sendCalls' = sendCalls + 1
    /\ \E ok \in (IF pushSocket = "open" THEN BOOLEAN ELSE {FALSE}) :
        IF ok
        THEN /\ wire' = Append(wire, m)
             /\ sendAttempts' = sendAttempts + 1
             /\ UNCHANGED sendWarnings
        ELSE /\ sendWarnings' = sendWarnings + 1
             /\ sendAttempts' = sendAttempts + SendAttemptsOnError
             /\ UNCHANGED wire
    /\ sendReturned' = sendReturned + 1
    /\ UNCHANGED <<keep_running, subPc, subSocket, msg, e, inbox, pushSocket,
                   closeCalls, lastClose>>
    /\ subHistUnchanged

NextBroker ==
    \/ Publish
    \/ SubStart
    \/ SubLoopTest
    \/ SubPollRecv
    \/ SubPollError
    \/ SubBefore
    \/ SubHandler
    \/ SubAfter
    \/ BrokerClientClose
    \/ \E m \in Msgs : BrokerClientSend(m)

\* the broker client when poll may return without the socket being readable
NextBrokerSpurious ==
    \/ NextBroker
    \/ SubPollNotReadable

(***************************************************************************)
(* ZatoHTTPListener.executeRequest (zato/server/base/parallel.py)          *)
(***************************************************************************)
\* httplib.FORBIDDEN, httplib.NOT_FOUND, and the status a task carries when
\* setResponseStatus is never called
FORBIDDEN == 403
NOT_FOUND == 404
DefaultStatus == 200

\* ZATO_URL_TYPE_SOAP, and the other type the table may hold
ZATO_URL_TYPE_SOAP == "soap"
PLAIN_HTTP == "plain_http"

\* url_type before the table has been consulted (Python's None)
NoUrlType == "None"

\* a header that the request does not carry
Absent == "<absent>"

\* sha256(text).hexdigest(): one digest per text
Sha256Hex(text) == <<"sha256", text>>

\* the security definition of a technical account: name, salt and the stored
\* digest of password ':' salt
TechAccount(name, password, salt) ==
    [name |-> name, salt |-> salt, password |-> Sha256Hex(password \o ":" \o salt)]

\* The table odb.get_url_security returns: two tech-account URLs, one of each
\* transport type, and one URL of a security type that ZatoHTTPListener has
\* no _handle_security_ method for.
UrlSecurityTable ==
    [u \in {"/plain", "/soap", "/basic"} |->
        CASE u = "/plain" -> [url_type |-> PLAIN_HTTP, sec_def_type |-> "tech-account",
                              sec_def |-> TechAccount("user", "secret", "salt")]
          [] u = "/soap"  -> [url_type |-> ZATO_URL_TYPE_SOAP, sec_def_type |-> "tech-account",
                              sec_def |-> TechAccount("user", "secret", "salt")]
          [] u = "/basic" -> [url_type |-> PLAIN_HTTP, sec_def_type |-> "basic-auth",
                              sec_def |-> TechAccount("user", "secret", "salt")]]

\* Another table odb.get_url_security may return: "/plain" is gone, and the
\* account of "/soap" has another name and another password.
OtherUrlSecurityTable ==
    [u \in {"/soap", "/basic"} |->
        CASE u = "/soap"  -> [url_type |-> ZATO_URL_TYPE_SOAP, sec_def_type |-> "tech-account",
                              sec_def |-> TechAccount("mallory", "guess", "salt")]
          [] u = "/basic" -> [url_type |-> PLAIN_HTTP, sec_def_type |-> "basic-auth",
                              sec_def |-> TechAccount("user", "secret", "salt")]]

Tables == {UrlSecurityTable, OtherUrlSecurityTable}

\* the requests of the model: a URI inside or outside the table, the two
\* X_ZATO headers (absent, empty, right or wrong), whether collecting the body
\* (getBodyStream().getvalue()) raises, and whether the target service raises
URIs == {"/plain", "/soap", "/basic", "/unknown"}
UserHeaders == {Absent, "", "user", "mallory"}
PasswordHeaders == {Absent, "", "secret", "guess"}
Requests == [uri : URIs, user : UserHeaders, password : PasswordHeaders,
             bodyRaises : BOOLEAN, serviceRaises : BOOLEAN]

NoRequest == [uri |-> "", user |-> Absent, password |-> Absent,
              bodyRaises |-> FALSE, serviceRaises |-> FALSE]
NoResponse == [status |-> DefaultStatus, content_type |-> "", content_length |-> "",
               body |-> <<>>, written |-> 0]

\* executeRequest's try block before it has run: url_type = None (line 273),
\* nothing raised, logged or invoked
NoOutcome == [url_type |-> NoUrlType, status |-> DefaultStatus, invoked |-> 0,
              text |-> <<>>, raised |-> "none", log |-> <<>>, comparisons |-> 0]

\* ParallelServer._after_init_common (line 341) has loaded the table; no task
\* has arrived.
InitHTTPVarsWith(table) ==
    /\ url_security = table
    /\ httpPc = "idle"
    /\ request = NoRequest
    /\ response = NoResponse
    /\ serviceCalls = 0
    /\ found = FALSE
    /\ outcome = NoOutcome
    /\ tablesDuring = {}

InitHTTPVars == InitHTTPVarsWith(UrlSecurityTable)

\* the listener's operations touch nothing of the other parts
OutsideHTTP == UNCHANGED <<poolVars, brokerVars, startVars, channelVars>>

\* a task arrives: a fresh response (default status, no headers, nothing
\* written) for a new request
NewRequest(req) ==
    /\ OutsideHTTP
    /\ httpPc \in {"idle", "written", "escaped"}
    /\ httpPc' = "received"
    /\ request' = req
    /\ response' = NoResponse
    /\ serviceCalls' = 0
    /\ found' = FALSE
    /\ outcome' = NoOutcome
    /\ tablesDuring' = {url_security}
    /\ UNCHANGED url_security

\* a wrapper that puts every message into the SOAP fault envelope
wrap_error_message_AlwaysSoap(url_type, text) ==
    <<"<soap:Fault>">> \o text \o <<"</soap:Fault>">>

\* wrap_error_message (lines 53-61): the SOAP fault envelope around the
\* message for the SOAP type, the message itself otherwise
wrap_error_message(url_type, text) ==
    IF url_type = ZATO_URL_TYPE_SOAP
    THEN <<"<soap:Fault>">> \o text \o <<"</soap:Fault>">>
    ELSE text

\* handler_name of handle_security (line 262), and whether the listener has a
\* method of that name (getattr, line 263)
HandlerName(sec_def_type) ==
    CASE sec_def_type = "tech-account" -> "_handle_security_tech_account"
      [] sec_def_type = "basic-auth" -> "_handle_security_basic_auth"
      [] OTHER -> "_handle_security_" \o sec_def_type

\* a listener that runs the tech-account check for every scheme
HasHandler_Any(name) == name # ""

\* the listener's only validator is _handle_security_tech_account (line 219)
HasHandler(name) == name = "_handle_security_tech_account"

\* whether headers.get(header, None) is false: the header is absent or empty
\* (line 225)
HeaderMissing(value) == value = Absent \/ value = ""

\* the text of lines 226-228 for a missing header, which is both logged and
\* the reason of the HTTPException
MissingHeaderText(header, req) ==
    <<"The header", header, "doesn't exist or is empty", req.uri, req.user, req.password>>

\* msg_template.format(what, uri, X_ZATO_USER) (lines 237-253)
IncorrectText(what, req) == <<"The " \o what \o " is incorrect", req.uri, req.user>>

\* a validator that tells the client which of the two checks failed
FailedCheckReason_Telling(what, req) == IncorrectText(what, req)

\* the reason sent to the client when the check named what ("username" or
\* "password") fails: the same text for both (lines 242-244, 251-253)
FailedCheckReason(what, req) == IncorrectText("username or password", req)

\* a validator that compares the password of a request that carries none
PasswordHeaderMissing_Ignored(req) == FALSE

\* the second turn of the loop of lines 224-230: X_ZATO_PASSWORD is absent or
\* empty
PasswordHeaderMissing(req) == HeaderMissing(req.password)

\* a validator that leaves the salt out of the digest
PasswordMatches_Unsalted(sec_def, req) ==
    Sha256Hex(req.password) = sec_def.password

\* lines 246-248: the digest of the incoming password and the salt against
\* the stored one
PasswordMatches(sec_def, req) ==
    Sha256Hex(req.password \o ":" \o sec_def.salt) = sec_def.password

\* _handle_security_tech_account (lines 219-253): the reason of the
\* HTTPException(FORBIDDEN, ...) it raises, or <<"ok">> when it returns; what
\* it writes to the log; how many of the two comparisons it made.
TechAccountCheck(sec_def, req) ==
    IF HeaderMissing(req.user)
    THEN [reason |-> MissingHeaderText("X_ZATO_USER", req),
          log |-> <<MissingHeaderText("X_ZATO_USER", req)>>, comparisons |-> 0]
    ELSE IF PasswordHeaderMissing(req)
    THEN [reason |-> MissingHeaderText("X_ZATO_PASSWORD", req),
          log |-> <<MissingHeaderText("X_ZATO_PASSWORD", req)>>, comparisons |-> 0]
    ELSE IF req.user # sec_def.name
    THEN [reason |-> FailedCheckReason("username", req),
          log |-> <<IncorrectText("username", req)>>, comparisons |-> 1]
    ELSE IF ~PasswordMatches(sec_def, req)
    THEN [reason |-> FailedCheckReason("password", req),
          log |-> <<IncorrectText("password", req)>>, comparisons |-> 2]
    ELSE [reason |-> <<"ok">>, log |-> <<>>, comparisons |-> 2]

\* "task.request_data.uri in self.server.url_security" (line 280)
UriKnown(uri, table) == uri \in DOMAIN table

\* the text of lines 291-292
UnknownUriText(req) ==
    <<"The URL", req.uri, "doesn't exist or has no security configuration assigned">>

\* a listener that treats a URI without security data as open: the service is
\* invoked and its response returned
UnknownUriOutcome_Open(req) ==
    [url_type |-> NoUrlType, status |-> DefaultStatus, invoked |-> 1,
     text |-> <<"service response">>, raised |-> "none", log |-> <<>>, comparisons |-> 0]

\* the else branch of lines 290-294 and its except clause (lines 299-301):
\* HTTPException(NOT_FOUND, msg) sets the status and becomes the response
UnknownUriOutcome(req) ==
    [url_type |-> NoUrlType, status |-> NOT_FOUND, invoked |-> 0,
     text |-> UnknownUriText(req), raised |-> "HTTPException",
     log |-> <<UnknownUriText(req)>>, comparisons |-> 0]

\* an except clause that also sets a status of its own
ExceptionOutcome_SetsStatus(url_type, tb, invoked) ==
    [url_type |-> url_type, status |-> FORBIDDEN, invoked |-> invoked,
     text |-> tb, raised |-> "Exception", log |-> <<<<"Exception caught">> \o tb>>,
     comparisons |-> 0]

\* "except Exception, e" (lines 304-307): the formatted trace is logged and
\* becomes the response; the status is not touched
ExceptionOutcome(url_type, tb, invoked) ==
    [url_type |-> url_type, status |-> DefaultStatus, invoked |-> invoked,
     text |-> tb, raised |-> "Exception", log |-> <<<<"Exception caught">> \o tb>>,
     comparisons |-> 0]

\* The try block of executeRequest from line 281 on, with its except clauses
\* (lines 281-307), given the result of the membership test of line 280: what
\* it leaves in url_type, the status it sets (DefaultStatus when it sets
\* none), the text that becomes the response, whether the service was
\* invoked, which except clause ran, what was logged.
TryBlock(req, inTable, table) ==
    IF req.bodyRaises
    THEN \* line 277 raised
         ExceptionOutcome(NoUrlType, <<"Traceback", "getvalue">>, 0)
    ELSE IF ~inTable
    THEN UnknownUriOutcome(req)
    ELSE IF ~UriKnown(req.uri, table)
    THEN \* line 281: self.server.url_security[uri] raises KeyError
         ExceptionOutcome(NoUrlType, <<"Traceback", "KeyError", req.uri>>, 0)
    ELSE LET url_data == table[req.uri]
             check == TechAccountCheck(url_data.sec_def, req)
         IN  IF ~HasHandler(HandlerName(url_data.sec_def_type))
             THEN \* getattr raises AttributeError
                  ExceptionOutcome(url_data.url_type,
                      <<"Traceback", "AttributeError", HandlerName(url_data.sec_def_type)>>, 0)
             ELSE IF check.reason # <<"ok">>
             THEN \* HTTPException(FORBIDDEN, msg): lines 299-301
                  [url_type |-> url_data.url_type, status |-> FORBIDDEN, invoked |-> 0,
                   text |-> check.reason, raised |-> "HTTPException", log |-> check.log,
                   comparisons |-> check.comparisons]
             ELSE IF req.serviceRaises
             THEN \* soap_handler.handle raised
                  [ExceptionOutcome(url_data.url_type, <<"Traceback", "service">>, 1)
                      EXCEPT !.comparisons = check.comparisons]
             ELSE [url_type |-> url_data.url_type, status |-> DefaultStatus, invoked |-> 1,
                   text |-> <<"service response">>, raised |-> "none", log |-> <<>>,
                   comparisons |-> check.comparisons]

\* whether the try block ended in one of its except clauses, whose text goes
\* through wrap_error_message
IsErrorOutcome(out) == out.raised # "none"

\* a try statement with the HTTPException clause only
CaughtByExcept_OnlyHTTPException(kind) == kind = "HTTPException"

\* the except clauses of lines 299 and 304: HTTPException, then any Exception
CaughtByExcept(kind) == kind \in {"HTTPException", "Exception"}

\* a listener that answers text/xml whatever the URL type
ContentType_AlwaysXml(url_type) == "text/xml"

\* lines 309-312
ContentType(url_type) ==
    IF url_type = ZATO_URL_TYPE_SOAP THEN "text/xml" ELSE "text/plain"

\* str(len(response)) (line 317)
ContentLength(body) == ToString(Len(body))

\* what the whole of executeRequest makes of a request when both reads of
\* self.server.url_security (lines 280 and 281) see the same table
ResponseFor(req, table) ==
    LET out == TryBlock(req, UriKnown(req.uri, table), table)
        body == IF IsErrorOutcome(out) THEN wrap_error_message(out.url_type, out.text)
                ELSE out.text
    IN  [status |-> out.status, content_type |-> ContentType(out.url_type),
         content_length |-> ContentLength(body), body |-> body, written |-> 1]

\* executeRequest, lines 273-280: url_type = None, the body is collected and
\* the URI looked for in self.server.url_security.  (When collecting the body
\* raises, the test is never made.)
ExecuteRequest_Test ==
    /\ OutsideHTTP
    /\ httpPc = "received"
    /\ found' = (~request.bodyRaises /\ UriKnown(request.uri, url_security))
    /\ httpPc' = "tested"
    /\ UNCHANGED <<url_security, request, response, serviceCalls, outcome, tablesDuring>>

\* executeRequest, lines 281-318: the rest of the try block (the entry is
\* fetched from self.server.url_security, read again), its except clauses,
\* then Content-Type from url_type, Content-Length from the response, and
\* task.write(response).  An exception no clause catches leaves the method
\* with nothing written.
ExecuteRequest ==
    /\ OutsideHTTP
    /\ httpPc = "tested"
    /\ LET out == TryBlock(request, found, url_security)
           body == IF IsErrorOutcome(out) THEN wrap_error_message(out.url_type, out.text)
                   ELSE out.text
       IN  /\ outcome' = out
           /\ serviceCalls' = serviceCalls + out.invoked
           /\ IF IsErrorOutcome(out) /\ ~CaughtByExcept(out.raised)
              THEN /\ httpPc' = "escaped"
                   /\ UNCHANGED response
              ELSE /\ httpPc' = "written"
                   /\ response' = [status |-> out.status,
                                   content_type |-> ContentType(out.url_type),
                                   content_length |-> ContentLength(body),
                                   body |-> body,
                                   written |-> response.written + 1]
    /\ UNCHANGED <<url_security, request, found, tablesDuring>>

\* A config-update broadcast arrives: the table is replaced wholesale, in one
\* assignment to self.url_security.
ReplaceUrlSecurity(table) ==
    /\ OutsideHTTP
    /\ table # url_security
    /\ url_security' = table
    /\ tablesDuring' = IF httpPc \in {"received", "tested"}
                       THEN tablesDuring \cup {table} ELSE tablesDuring
    /\ UNCHANGED <<httpPc, request, response, serviceCalls, found, outcome>>

NextHTTP ==
    \/ \E req \in Requests : NewRequest(req)
    \/ ExecuteRequest_Test
    \/ ExecuteRequest

NextHTTPReload ==
    \/ \E req \in Requests : NewRequest(req)
    \/ ExecuteRequest_Test
    \/ ExecuteRequest
    \/ \E table \in Tables : ReplaceUrlSecurity(table)

(***************************************************************************)
(* _HTTPServerChannel                                                      *)
(***************************************************************************)
Channels == {1, 2}
ChannelWorkers == {1, 2}

\* a worker that is not servicing a channel
IdleWorker == [pc |-> "loop", channel |-> 0, task |-> 0]

\* the channels as the listener creates them: no pending task, not running,
\* not in the dispatcher's queue; both workers wait in their loop
InitChannelVars ==
    /\ chan_tasks = [ch \in Channels |-> <<>>]
    /\ running_tasks = [ch \in Channels |-> FALSE]
    /\ dispatcherQueue = <<>>
    /\ chw = [w \in ChannelWorkers |-> IdleWorker]
    /\ servicedBy = <<>>
    /\ nQueued = 0

\* the channels' operations touch nothing of the other parts
OutsideChannel == UNCHANGED <<poolVars, brokerVars, httpVars, startVars>>

\* The listener queues a new task on a channel (the base class's queue_task,
\* under task_lock): the task joins the channel's pending list, and a channel
\* that is not running is marked running and handed to the dispatcher.
QueueTask(ch) ==
    /\ OutsideChannel
    /\ nQueued < MaxChannelTasks
    /\ nQueued' = nQueued + 1
    /\ chan_tasks' = [chan_tasks EXCEPT ![ch] = Append(@, nQueued + 1)]
    /\ servicedBy' = Append(servicedBy, <<>>)
    /\ IF running_tasks[ch]
       THEN UNCHANGED <<running_tasks, dispatcherQueue>>
       ELSE /\ running_tasks' = [running_tasks EXCEPT ![ch] = TRUE]
            /\ dispatcherQueue' = Append(dispatcherQueue, ch)
    /\ UNCHANGED chw

\* handlerThread, lines 183-188: a worker dequeues a channel and calls its
\* service(thread_data)
ChannelGet(w) ==
    /\ OutsideChannel
    /\ chw[w].pc = "loop"
    /\ dispatcherQueue # <<>>
    /\ dispatcherQueue' = Tail(dispatcherQueue)
    /\ chw' = [chw EXCEPT ![w] = [pc |-> "pop", channel |-> Head(dispatcherQueue),
                                  task |-> 0]]
    /\ UNCHANGED <<chan_tasks, running_tasks, servicedBy, nQueued>>

\* a pop that leaves the task in the pending list
ChannelPop_Peek(w) ==
    /\ OutsideChannel
    /\ chw[w].pc = "pop"
    /\ LET ch == chw[w].channel IN
        IF chan_tasks[ch] # <<>>
        THEN /\ chw' = [chw EXCEPT ![w].pc = "service", ![w].task = Head(chan_tasks[ch])]
             /\ UNCHANGED <<chan_tasks, running_tasks>>
        ELSE /\ running_tasks' = [running_tasks EXCEPT ![ch] = FALSE]
             /\ chw' = [chw EXCEPT ![w] = IdleWorker]
             /\ UNCHANGED chan_tasks
    /\ UNCHANGED <<dispatcherQueue, servicedBy, nQueued>>

\* _HTTPServerChannel.service, lines 95-107, under task_lock: the first
\* pending task is popped; with none left, running_tasks = False, the
\* channel goes back to asynchronous mode and service returns.
ChannelPop(w) ==
    /\ OutsideChannel
    /\ chw[w].pc = "pop"
    /\ LET ch == chw[w].channel IN
        IF chan_tasks[ch] # <<>>
        THEN /\ chw' = [chw EXCEPT ![w].pc = "service", ![w].task = Head(chan_tasks[ch])]
             /\ chan_tasks' = [chan_tasks EXCEPT ![ch] = Tail(@)]
             /\ UNCHANGED running_tasks
        ELSE /\ running_tasks' = [running_tasks EXCEPT ![ch] = FALSE]
             /\ chw' = [chw EXCEPT ![w] = IdleWorker]
             /\ UNCHANGED chan_tasks
    /\ UNCHANGED <<dispatcherQueue, servicedBy, nQueued>>

\* an except clause that only re-raises
AddTaskAfterRaise_Dropped(q, ch) == SubSeq(q, 1, Len(q))

\* "self.server.addTask(self)" of the except clause (line 112): the channel
\* joins the dispatcher's queue again
AddTaskAfterRaise(q, ch) == Append(q, ch)

\* _HTTPServerChannel.service, lines 108-113, with _HTTPTask.service (lines
\* 74-86): the task is serviced; when it returns, the loop goes on with the
\* next pending task; when it raises, the channel is handed to the dispatcher
\* again and the exception leaves service (handlerThread catches it).
ChannelService(w) ==
    /\ OutsideChannel
    /\ chw[w].pc = "service"
    /\ \E raised \in BOOLEAN :
        /\ servicedBy' = [servicedBy EXCEPT ![chw[w].task] =
                             Append(@, [worker |-> w, channel |-> chw[w].channel,
                                        raised |-> raised])]
        /\ IF raised
           THEN /\ dispatcherQueue' = AddTaskAfterRaise(dispatcherQueue, chw[w].channel)
                /\ chw' = [chw EXCEPT ![w] = IdleWorker]
           ELSE /\ chw' = [chw EXCEPT ![w].pc = "pop", ![w].task = 0]
                /\ UNCHANGED dispatcherQueue
    /\ UNCHANGED <<chan_tasks, running_tasks, nQueued>>

NextChannel ==
    \/ \E ch \in Channels : QueueTask(ch)
    \/ \E w \in ChannelWorkers : ChannelGet(w)
    \/ \E w \in ChannelWorkers : ChannelPop(w)
    \/ \E w \in ChannelWorkers : ChannelService(w)

(***************************************************************************)
(* ParallelServer.after_init                                               *)
(***************************************************************************)
\* PORTS: the offsets of the worker threads' and the singleton's channels
BROKER_PUSH_WORKER_THREAD_PULL == 0
WORKER_THREAD_PUSH_BROKER_PULL == 1
BROKER_PUB_WORKER_THREAD_SUB == 2
BROKER_PUSH_SINGLETON_PULL == 10
SINGLETON_PUSH_BROKER_PULL == 11

\* the value last_join_status is compared with (line 383); only equality
\* with it matters
ZATO_JOIN_REQUEST_ACCEPTED == "ACCEPTED"

\* what odb.fetch_server() returns when there is no server record, and the
\* value of an attribute that has not been assigned (Python's None): the
\* empty tuple, which is no record, no table and no address
None == <<>>

\* the server records odb.fetch_server() may return
JoinStatuses == {ZATO_JOIN_REQUEST_ACCEPTED, "PENDING"}
BrokerHosts == {"localhost", "10.0.0.7"}
BrokerStartPorts == {5100, 5200, 41000}
ServerRecords ==
    [last_join_status : JoinStatuses,
     cluster : [broker_host : BrokerHosts, broker_start_port : BrokerStartPorts,
                broker_token : {"token"}]]

\* 'tcp://{0}:{1}'.format(host, port) (lines 345-348)
TcpAddress(host, port) == <<"tcp://", host, ":", port>>

\* ParallelServer.__init__ (lines 323-333): nothing of after_init has run;
\* url_security, broker_token and the broker addresses are not assigned yet
InitStartVars(singleton) ==
    /\ startPc = "new"
    /\ server = None
    /\ singleton_server = singleton
    /\ broker_token = None
    /\ broker_push_addr = None
    /\ broker_pull_addr = None
    /\ singleton_kwargs = <<>>
    /\ startTrace = <<>>

\* the startup steps touch nothing of the pool, the broker client or the
\* requests under way; url_security is theirs to set
OutsideStart ==
    UNCHANGED <<poolVars, brokerVars, httpPc, request, response, serviceCalls, found,
                outcome, tablesDuring, singleton_server, channelVars>>

\* a test that lets every fetched value through
ServerMissing_Never(record) == record # record

\* "if not server" (line 374)
ServerMissing(record) == record = None

\* after_init, lines 372-375: server = self.odb.fetch_server(); without a
\* server record the Exception leaves after_init.
AfterInit_Fetch(record) ==
    /\ OutsideStart
    /\ startPc = "new"
    /\ server' = record
    /\ startPc' = IF ServerMissing(record) THEN "raised" ELSE "url_security"
    /\ UNCHANGED <<url_security, broker_token, broker_push_addr, broker_pull_addr,
                   singleton_kwargs, startTrace>>

\* _after_init_common, line 341: self.url_security = odb.get_url_security(server)
AfterInit_UrlSecurity(table) ==
    /\ OutsideStart
    /\ startPc = "url_security"
    /\ url_security' = table
    /\ startPc' = "addresses"
    /\ UNCHANGED <<server, broker_token, broker_push_addr, broker_pull_addr,
                   singleton_kwargs, startTrace>>

\* _after_init_common, lines 344-348: the token and the two addresses handed
\* to every worker thread, from server.cluster
AfterInit_Addresses ==
    /\ OutsideStart
    /\ startPc = "addresses"
    /\ server # None
    /\ broker_token' = server.cluster.broker_token
    /\ broker_push_addr' = TcpAddress(server.cluster.broker_host,
                                      server.cluster.broker_start_port)
    /\ broker_pull_addr' = TcpAddress(server.cluster.broker_host,
                                      server.cluster.broker_start_port + 1)
    /\ startPc' = "singleton"
    /\ UNCHANGED <<url_security, server, singleton_kwargs, startTrace>>

\* _after_init_common, lines 350-360: when a singleton server was given, the
\* internal services are read and a thread running singleton_server.run is
\* started with these kwargs
AfterInit_Singleton ==
    /\ OutsideStart
    /\ startPc = "singleton"
    /\ IF singleton_server
       THEN /\ startTrace' = Append(startTrace, <<"read_internal_services">>)
            /\ singleton_kwargs' =
                Append(singleton_kwargs,
                       [broker_host |-> server.cluster.broker_host,
                        broker_push_port |-> server.cluster.broker_start_port + 2,
                        broker_sub_port |-> server.cluster.broker_start_port + 3,
                        broker_token |-> broker_token])
       ELSE UNCHANGED <<singleton_kwargs, startTrace>>
    /\ startPc' = "join_status"
    /\ UNCHANGED <<url_security, server, broker_token, broker_push_addr, broker_pull_addr>>

\* after_init, lines 383-389: the hook of the server's join status; a server
\* that was not accepted is warned about first
AfterInit_JoinStatus ==
    /\ OutsideStart
    /\ startPc = "join_status"
    /\ startTrace' =
          IF server.last_join_status = ZATO_JOIN_REQUEST_ACCEPTED
          THEN Append(startTrace, <<"_after_init_accepted">>)
          ELSE startTrace \o << <<"warn", server.last_join_status>>,
                               <<"_after_init_non_accepted">> >>
    /\ startPc' = "done"
    /\ UNCHANGED <<url_security, server, broker_token, broker_push_addr, broker_pull_addr,
                   singleton_kwargs>>

NextStart ==
    \/ \E record \in ServerRecords \cup {None} : AfterInit_Fetch(record)
    \/ \E table \in Tables : AfterInit_UrlSecurity(table)
    \/ AfterInit_Addresses
    \/ AfterInit_Singleton
    \/ AfterInit_JoinStatus

(***************************************************************************)
(* Specifications                                                          *)
(***************************************************************************)
InitPool == InitPoolVars /\ callers = {MainThread} /\ InitBrokerVars /\ InitHTTPVars
    /\ InitStartVars(FALSE) /\ InitChannelVars

InitBroker == InitPoolVars /\ callers = {MainThread} /\ InitBrokerVars /\ InitHTTPVars
    /\ InitStartVars(FALSE) /\ InitChannelVars

\* odb.get_url_security may have returned either table
InitHTTP ==
    /\ InitPoolVars /\ callers = {MainThread} /\ InitBrokerVars
    /\ \E table \in Tables : InitHTTPVarsWith(table)
    /\ InitStartVars(FALSE) /\ InitChannelVars

\* a server that has been constructed, with or without a singleton server,
\* and not yet initialised: url_security is not assigned yet
InitStart ==
    /\ InitPoolVars /\ callers = {MainThread} /\ InitBrokerVars
    /\ InitHTTPVarsWith(None)
    /\ \E singleton \in BOOLEAN : InitStartVars(singleton)
    /\ InitChannelVars

SpecStart == InitStart /\ [][NextStart]_vars

\* the channels of a listener that has started, with two workers
InitChannel ==
    /\ InitPoolVars /\ callers = {MainThread} /\ InitBrokerVars /\ InitHTTPVars
    /\ InitStartVars(FALSE) /\ InitChannelVars

SpecChannel == InitChannel /\ [][NextChannel]_vars

\* Worker threads are operating-system threads: each keeps being scheduled
\* while it can take a step.  Nothing makes the listener queue another task.
FairnessChannel ==
    \A w \in ChannelWorkers : WF_vars(ChannelGet(w) \/ ChannelPop(w) \/ ChannelService(w))

FairSpecChannel == InitChannel /\ [][NextChannel]_vars /\ FairnessChannel

SpecHTTP == InitHTTP /\ [][NextHTTP]_vars

\* The worker thread running executeRequest is an operating-system thread: it
\* keeps being scheduled while it can take a step.  Nothing makes a client
\* send another request.
FairnessHTTP == WF_vars(ExecuteRequest_Test \/ ExecuteRequest)

FairSpecHTTP == InitHTTP /\ [][NextHTTP]_vars /\ FairnessHTTP

\* the listener with config-update broadcasts arriving at any time
SpecHTTPReload == InitHTTP /\ [][NextHTTPReload]_vars

SpecBroker == InitBroker /\ [][NextBroker]_vars

\* the subscriber with a poller that may return without a message
SpecBrokerSpurious == InitBroker /\ [][NextBrokerSpurious]_vars

\* The thread running listen is an operating-system thread: it keeps being
\* scheduled while it can take a step.  Nothing makes the broker publish, the
\* transport fail or the owner call close or send.
FairnessBroker ==
    WF_vars(SubLoopTest \/ SubPollRecv \/ SubBefore \/ SubHandler \/ SubAfter)

FairSpecBroker == InitBroker /\ [][NextBroker]_vars /\ FairnessBroker

SpecPool == InitPool /\ [][NextPool]_vars

\* Worker threads and a caller inside setThreadCount are operating-system
\* threads: each keeps being scheduled while it can take a step.  Nothing makes
\* the listener add a task or a caller begin another setThreadCount.
FairnessPool ==
    /\ \A c \in Callers : WF_vars(STC_Grow(c) \/ STC_Shrink(c) \/ STC_Put(c) \/ STC_Release(c))
    /\ \A n \in ThreadNos : WF_vars(HandlerStart(n) \/ HandlerGet(n) \/ HandlerService(n)
                                        \/ HandlerAcquire(n) \/ HandlerDeregister(n))

FairSpecPool == InitPool /\ [][NextPool]_vars /\ FairnessPool

\* the pool with two threads that may call setThreadCount at any time
InitPoolConcurrent == InitPoolVars /\ callers = Callers /\ InitBrokerVars /\ InitHTTPVars
    /\ InitStartVars(FALSE) /\ InitChannelVars

SpecPoolConcurrent == InitPoolConcurrent /\ [][NextPool]_vars

\* the pool with worker threads that may fail before they enter their loop
SpecPoolStartFails == InitPool /\ [][NextPoolStartFails]_vars

(***************************************************************************)
(* Claims about the pool.                                                  *)
(***************************************************************************)
QueueItems == {queue[i] : i \in 1 .. Len(queue)}

\* the threads that run their task loop (or are about to enter it)
LiveWorkers == {n \in ThreadNos : wpc[n] \in {"start", "loop", "service"}}

\* no setThreadCount call is under way, every sentinel has been dequeued and
\* every worker that dequeued one has deregistered
Quiescent ==
    /\ \A c \in Callers : stc[c].pc = "idle"
    /\ NoneItem \notin QueueItems
    /\ \A n \in ThreadNos : wpc[n] \notin {"exit", "dereg"}

TasksBeforeLatestCall == 1 .. markTasks

C3_WorkerSurvivesException ==
    [][\A n \in ThreadNos :
          (wpc[n] = "service" /\ wtask[n] \notin raisedTasks /\ wtask[n] \in raisedTasks')
              => (wpc'[n] = "loop" /\ n \in threads' /\ stop_count' = stop_count)]_vars

\* C3's case: the one worker of the pool serviced task 1, which raised, and
\* went on to service task 2.
C3_Witness ==
    /\ nCalls = 1
    /\ lastCount = 1
    /\ 1 \in raisedTasks
    /\ 2 \in serviced
    /\ threads = {0}

(***************************************************************************)
(* Claims about the broker client.                                         *)
(***************************************************************************)
\* the messages handed to on_message_handler, in order
HandlerCalls == SelectSeq(calls, LAMBDA c : c.hook = "handler")

\* C4: a handler that raises does not end the subscriber loop (the thread
\* running listen dies of a transport error only, and returns only once the
\* running flag is cleared), and every message received, also after a
\* handler exception, is handed to the handler: the handler's arguments are
\* the received messages in order, the latest one being at most on its way.
C4_LoopSurvivesHandlerException ==
    /\ subPc = "dead" => transportErr
    /\ subPc = "done" => ~keep_running
    /\ Len(HandlerCalls) <= Len(recvLog)
    /\ \A i \in 1 .. Len(HandlerCalls) : HandlerCalls[i].msg = recvLog[i]
    /\ Len(HandlerCalls) < Len(recvLog)
          => (Len(recvLog) = Len(HandlerCalls) + 1 /\ subPc \in {"before", "handler"})

\* C4's case: the handler raised for the first message and has been called
\* with the second one.
C4_Witness ==
    /\ Len(HandlerCalls) >= 2
    /\ HandlerCalls[1].raised
    /\ HandlerCalls[2].msg = 2

\* C5: once close() has been called on a started subscriber, its loop
\* terminates, whether or not another message arrives.
C5_CloseStopsLoop ==
    [](((closeCalls >= 1 /\ subPc # "init")) => <>(subPc \in {"done", "dead"}))

\* C6: close() sets the running flag to false, closes the socket the
\* subscriber loop opened and completes without error, on the first call and
\* on every later one.
C6_CloseIdempotent ==
    closeCalls >= 1 => /\ ~keep_running
                       /\ lastClose = "ok"
                       /\ subSocket # "open"
                       /\ pushSocket = "closed"

\* the k-th received message's three calls
CallsOf(k) == <<calls[3 * k - 2], calls[3 * k - 1], calls[3 * k]>>

\* C7: for every received message the loop calls on_before_msg_handler(msg),
\* on_message_handler(msg) and on_after_msg_handler(msg, e) in this order,
\* msg being the received message in all three and e the handler's exception,
\* or None when it raised none.
C7_HooksInOrderWithSameMessage ==
    \A k \in 1 .. Len(recvLog) :
        3 * k <= Len(calls) =>
            /\ CallsOf(k)[1].hook = "before" /\ CallsOf(k)[1].msg = recvLog[k]
            /\ CallsOf(k)[2].hook = "handler" /\ CallsOf(k)[2].msg = recvLog[k]
            /\ CallsOf(k)[3].hook = "after" /\ CallsOf(k)[3].msg = recvLog[k]
            /\ CallsOf(k)[3].e = (IF CallsOf(k)[2].raised THEN "Exception" ELSE "None")

\* C8: the step in which listen catches a transport error calls close(),
\* ends the loop and invokes no hook or handler; after it the thread takes no
\* further step and no hook or handler is invoked any more.
C8_TransportErrorIsFatal ==
    [][/\ (~transportErr /\ transportErr')
             => /\ subPc' \in {"dead", "done"}
                /\ ~keep_running'
                /\ closeCalls' = closeCalls + 1
                /\ calls' = calls
                /\ recvLog' = recvLog
       /\ transportErr
             => /\ calls' = calls
                /\ recvLog' = recvLog
                /\ subPc' \in {"dead", "done"}
                /\ ~keep_running']_vars

\* C8's case: a transport error struck a loop that had already dispatched a
\* message, while another message was waiting at the socket.
C8_Witness ==
    /\ transportErr
    /\ subPc = "dead"
    /\ Len(calls) = 3
    /\ inbox # <<>>

\* C9: every send() call returns normally, having invoked socket.send exactly
\* once: a transport error is logged as a warning and the message is not sent
\* again, so at most one transmission is made per call.
C9_SendAtMostOnce ==
    /\ sendReturned = sendCalls
    /\ sendAttempts = sendCalls
    /\ Len(wire) + sendWarnings = sendCalls

\* C9's case: one send met a transport error, the next one went through.
C9_Witness ==
    /\ sendCalls = 2
    /\ sendWarnings = 1
    /\ Len(wire) = 1

(***************************************************************************)
(* Claims about the request pipeline.                                      *)
(***************************************************************************)
\* the task's request has been answered and its URI is not in url_security
AnsweredUnknownUri == httpPc = "written" /\ request.uri \notin DOMAIN url_security

OnTechAccountPath ==
    /\ request.uri \in DOMAIN url_security
    /\ url_security[request.uri].sec_def_type = "tech-account"

\* the transport type of the request's URI in the table
PathUrlType == url_security[request.uri].url_type

\* the request carries the configured name, and a password whose salted
\* digest is the stored one
NameIsRight == request.user = url_security[request.uri].sec_def.name
PasswordIsRight ==
    Sha256Hex(request.password \o ":" \o url_security[request.uri].sec_def.salt)
        = url_security[request.uri].sec_def.password

\* both X_ZATO headers are present and non-empty
HeadersGiven ==
    /\ request.user \notin {Absent, ""}
    /\ request.password \notin {Absent, ""}

GenericRefusal ==
    LET text == <<"The username or password is incorrect", request.uri, request.user>>
    IN  IF PathUrlType = ZATO_URL_TYPE_SOAP
        THEN <<"<soap:Fault>">> \o text \o <<"</soap:Fault>">>
        ELSE text

C14_EveryRequestAnswered ==
    /\ [](httpPc # "escaped" /\ response.written <= 1)
    /\ [](httpPc = "received" => <>(httpPc = "written" /\ response.written = 1))

\* C14's case: a request whose service raised has been answered.
C14_Witness ==
    /\ httpPc = "written"
    /\ request.serviceRaises
    /\ serviceCalls = 1
    /\ response.written = 1
    /\ response.body # <<"service response">>

\* the transport type executeRequest resolved: that of the table's entry when
\* the body was collected and the URI found, none otherwise
ResolvedUrlType ==
    IF ~request.bodyRaises /\ request.uri \in DOMAIN url_security
    THEN PathUrlType ELSE NoUrlType

\* C15: every response carries Content-Type and Content-Length; Content-Type
\* is text/xml exactly when the resolved transport type is SOAP and
\* text/plain otherwise, and Content-Length is the length of the body
\* written.
C15_ContentHeaders ==
    httpPc = "written"
        => /\ response.content_type =
                (IF ResolvedUrlType = ZATO_URL_TYPE_SOAP THEN "text/xml" ELSE "text/plain")
           /\ response.content_length = ToString(Len(response.body))

\* C15's case: a refusal on the SOAP path went out as text/xml, five items
\* long.
C15_Witness ==
    /\ httpPc = "written"
    /\ request.uri = "/soap"
    /\ response.status = FORBIDDEN
    /\ response.content_type = "text/xml"
    /\ response.content_length = "5"

\* the request fails otherwise than by an HTTP-status error: collecting the
\* body raises, the scheme of its path has no handler, or the service raises
FailsWithoutStatus ==
    \/ request.bodyRaises
    \/ /\ request.uri \in DOMAIN url_security
       /\ url_security[request.uri].sec_def_type # "tech-account"
    \/ /\ OnTechAccountPath /\ NameIsRight /\ PasswordIsRight /\ HeadersGiven
       /\ request.serviceRaises

\* C16: a request that fails otherwise than by an HTTP-status error is
\* answered with the default status 200 and the formatted trace, in the
\* envelope of the resolved transport type; a status other than 200 comes
\* from an HTTP-status error only.
C16_OtherFailuresKeep200 ==
    /\ (httpPc = "written" /\ FailsWithoutStatus)
          => /\ response.status = DefaultStatus
             /\ outcome.text[1] = "Traceback"
             /\ response.body = wrap_error_message(ResolvedUrlType, outcome.text)
    /\ (httpPc = "written" /\ response.status # DefaultStatus)
          => outcome.raised = "HTTPException"

\* C16's case: the service of the SOAP path raised and the trace went out in
\* a fault envelope with status 200.
C16_Witness ==
    /\ httpPc = "written"
    /\ request.uri = "/soap"
    /\ serviceCalls = 1
    /\ response.status = DefaultStatus
    /\ response.body = <<"<soap:Fault>", "Traceback", "service", "</soap:Fault>">>

\* C17: for every transport type other than SOAP, the unresolved type None
\* included, the error message is written as it is.
C17_WrapIsIdentityUnlessSoap ==
    (httpPc = "written" /\ outcome.raised # "none" /\ outcome.url_type # ZATO_URL_TYPE_SOAP)
        => response.body = outcome.text

\* C17's case: a refusal on the plain HTTP path.
C17_Witness ==
    /\ httpPc = "written"
    /\ outcome.url_type = PLAIN_HTTP
    /\ response.status = FORBIDDEN
    /\ response.body = outcome.text

\* C18: the response to a request is the one a single table gives, the table
\* being one of those url_security held while the request was handled.
C18_DecidedAgainstOneTable ==
    httpPc = "written" => \E table \in tablesDuring : response = ResponseFor(request, table)

(***************************************************************************)
(* Claims about the server's handler of EXECUTE messages.                  *)
(***************************************************************************)
\* the handler calls made for messages whose service is in the store
KnownHandlerCalls == SelectSeq(HandlerCalls, LAMBDA c : msgService[c.msg] \in ServiceStore)

\* C19: for every EXECUTE message handed to the handler whose service is in
\* the store, the service is invoked with the message's payload, in the order
\* of the messages, and for no other message; every exception of the lookup
\* or of the invocation is logged, and none ends the subscriber loop (the
\* thread running listen dies of a transport error only), which hands the
\* later messages to the handler.
C19_ExecuteInvokesServiceAndIsolatesFailures ==
    /\ Len(invocations) = Len(KnownHandlerCalls)
    /\ \A i \in 1 .. Len(invocations) :
          invocations[i] = [service |-> msgService[KnownHandlerCalls[i].msg],
                            payload |-> <<"extra", KnownHandlerCalls[i].msg>>]
    /\ \A i \in 1 .. Len(HandlerCalls) :
          msgService[HandlerCalls[i].msg] \notin ServiceStore => HandlerCalls[i].raised
    /\ handlerErrors = Cardinality({i \in 1 .. Len(HandlerCalls) : HandlerCalls[i].raised})
    /\ subPc = "dead" => transportErr
    /\ Len(recvLog) <= Len(HandlerCalls) + 1
    /\ \A i \in 1 .. Len(HandlerCalls) : HandlerCalls[i].msg = recvLog[i]

\* C19's case: the lookup failed for the first message (service Bar is not in
\* the store), the exception was logged, and the service Foo of the second
\* message was invoked with that message's payload.
C19_Witness ==
    /\ msgService[1] = "Bar"
    /\ msgService[2] = "Foo"
    /\ handlerErrors = 1
    /\ invocations = <<[service |-> "Foo", payload |-> <<"extra", 2>>]>>
    /\ subPc = "loop"

(***************************************************************************)
(* Claims about shutting the pool down.                                    *)
(***************************************************************************)
\* the sentinels waiting in the queue
SentinelsQueued == Cardinality({i \in 1 .. Len(queue) : queue[i] = NoneItem})

\* the workers that have left their loop and not yet deregistered
Leaving == {n \in ThreadNos : wpc[n] \in {"exit", "dereg"}}

\* the latest setThreadCount call was the shutdown's, setThreadCount(0), and
\* has returned
ShutdownCalled ==
    /\ nCalls >= 1
    /\ lastCount = 0
    /\ \A c \in Callers : stc[c].pc = "idle"

C21_SubscriberEndsWithWorker ==
    subscribers <= Cardinality(LiveWorkers) + Cardinality(Leaving)

(***************************************************************************)
(* Claims about the pool's lock.                                           *)
(***************************************************************************)
\* C24: every step that changes the thread table or the stop counter is
\* taken by the thread that holds thread_mgmt_lock (a caller inside
\* setThreadCount, or a worker in its finally clause), and a worker that is
\* executing task.service never holds the lock.
C24_WritesUnderLock ==
    /\ [](\A n \in ThreadNos : wpc[n] = "service" => mlock # WorkerLock(n))
    /\ [][(threads' # threads \/ stop_count' # stop_count)
            => \/ \E c \in Callers : /\ mlock = CallerLock(c)
                                     /\ stc[c].pc \in {"grow", "shrink"}
                                     /\ stc'[c] # stc[c]
               \/ \E n \in ThreadNos : /\ mlock = WorkerLock(n)
                                       /\ wpc[n] = "dereg"
                                       /\ wpc'[n] = "none"]_vars

\* C24's case: a worker is executing a task while a setThreadCount call holds
\* the lock and has changed the stop counter.
C24_Witness ==
    /\ \E n \in ThreadNos : wpc[n] = "service"
    /\ \E c \in Callers : mlock = CallerLock(c) /\ stc[c].pc = "put"
    /\ stop_count >= 1

\* C25: setThreadCount calls issued by two threads, also while workers are
\* leaving, run one at a time; the running count a call works with is the
\* pool's len(threads) - stop_count at every point of the call, and the call
\* leaves what a call running alone leaves: len(threads) - stop_count equal to
\* its argument, and one sentinel, queued or already dequeued by a leaving
\* worker, for every worker counted in stop_count.
C25_ConcurrentCallsAreSerial ==
    /\ \A c, d \in Callers : (stc[c].pc # "idle" /\ stc[d].pc # "idle") => c = d
    /\ \A c \in Callers :
        /\ stc[c].pc \in {"grow", "shrink"}
              => stc[c].running = Cardinality(threads) - stop_count
        /\ stc[c].pc = "put"
              => /\ stc[c].running - stc[c].to_stop = Cardinality(threads) - stop_count
                 /\ stc[c].running - stc[c].to_stop = stc[c].count
        /\ stc[c].pc = "release"
              => /\ Cardinality(threads) - stop_count = stc[c].count
                 /\ stop_count = SentinelsQueued + Cardinality(Leaving)

\* C25's case: the second thread is inside a setThreadCount call that follows
\* an earlier call, about to return, while a worker stopped by the earlier
\* call waits for the lock to deregister.
C25_Witness ==
    /\ nCalls >= 2
    /\ stc[2].pc = "release"
    /\ mlock = CallerLock(2)
    /\ \E n \in ThreadNos : wpc[n] = "exit"

(***************************************************************************)
(* Claims about tasks in flight.                                           *)
(***************************************************************************)
\* C26: a worker that holds a dequeued task stays registered and keeps the
\* task until task.service has returned or its Exception has been caught,
\* whatever setThreadCount does meanwhile; it then goes back to its loop, and
\* only a worker that is in its loop, between tasks, dequeues a sentinel and
\* leaves.
C26_ShrinkIsCooperative ==
    /\ [][\A n \in ThreadNos :
            wpc[n] = "service"
                => /\ n \in threads'
                   /\ \/ wpc'[n] = "service" /\ wtask'[n] = wtask[n]
                      \/ wpc'[n] = "loop" /\ wtask[n] \in serviced']_vars
    /\ [][\A n \in ThreadNos :
            (wpc[n] # "exit" /\ wpc'[n] = "exit")
                => /\ wpc[n] = "loop"
                   /\ queue # <<>> /\ Head(queue) = NoneItem
                   /\ queue' = Tail(queue)]_vars

\* C26's case: the pool's one worker is servicing a task while a
\* setThreadCount(0) has returned and its sentinel waits at the head of the
\* queue.
C26_Witness ==
    /\ threads = {0}
    /\ wpc[0] = "service"
    /\ ShutdownCalled
    /\ queue # <<>>
    /\ Head(queue) = NoneItem

(***************************************************************************)
(* Claims about the stop counter.                                          *)
(***************************************************************************)
\* the sentinels a setThreadCount call under way has added to stop_count
\* (line 159) and not yet put in the queue (lines 160-162)
PendingSentinels ==
    Cardinality({ck \in Callers \X (1 .. MaxThreads) : ck[2] <= stc[ck[1]].to_stop})

C27_ServiceOnlyAfterValidation ==
    serviceCalls >= 1
        => /\ serviceCalls = 1
           /\ httpPc \in {"written", "escaped"}
           /\ ~request.bodyRaises
           /\ OnTechAccountPath
           /\ HeadersGiven
           /\ NameIsRight
           /\ PasswordIsRight

\* C27's case: a request with the configured name and password to the path
\* whose scheme has no validator was answered without invoking the service.
C27_Witness ==
    /\ httpPc = "written"
    /\ request.uri = "/basic"
    /\ request.user = "user"
    /\ request.password = "secret"
    /\ ~request.bodyRaises
    /\ serviceCalls = 0
    /\ outcome.raised = "Exception"

(***************************************************************************)
(* Claims about startup.                                                   *)
(***************************************************************************)
\* C22: when odb.fetch_server() returned no server record, after_init has
\* raised and nothing of the later steps has run or ever runs: url_security
\* is not loaded, the broker addresses are not set, no singleton thread has
\* been started and neither join-status hook has been called.
C22_NoServerRecordStopsStartup ==
    (startPc # "new" /\ server = None)
        => /\ startPc = "raised"
           /\ url_security = None
           /\ broker_push_addr = None
           /\ broker_pull_addr = None
           /\ singleton_kwargs = <<>>
           /\ startTrace = <<>>

\* C22's case: after_init of a server that was given a singleton server has
\* raised for want of a server record.
C22_Witness ==
    /\ startPc = "raised"
    /\ server = None
    /\ singleton_server

\* the offsets PORTS gives the worker threads' channels, and the singleton's
WorkerThreadOffsets ==
    {BROKER_PUSH_WORKER_THREAD_PULL, WORKER_THREAD_PUSH_BROKER_PULL,
     BROKER_PUB_WORKER_THREAD_SUB}
SingletonOffsets == {BROKER_PUSH_SINGLETON_PULL, SINGLETON_PUSH_BROKER_PULL}

\* the port of an address built by TcpAddress
PortOf(address) == address[4]

\* C23: every port ParallelServer derives is the cluster's base port plus an
\* offset of the PORTS table for that component: the workers' two addresses
\* use worker-thread offsets, the ports handed to the singleton use singleton
\* offsets.
C23_PortsFollowTable ==
    /\ broker_push_addr # None
          => PortOf(broker_push_addr) - server.cluster.broker_start_port
                \in WorkerThreadOffsets
    /\ broker_pull_addr # None
          => PortOf(broker_pull_addr) - server.cluster.broker_start_port
                \in WorkerThreadOffsets
    /\ \A i \in 1 .. Len(singleton_kwargs) :
          /\ singleton_kwargs[i].broker_push_port - server.cluster.broker_start_port
                \in SingletonOffsets
          /\ singleton_kwargs[i].broker_sub_port - server.cluster.broker_start_port
                \in SingletonOffsets

(***************************************************************************)
(* Claims about the channels' tasks.                                       *)
(***************************************************************************)
\* how often task t stands in the channels' pending lists
PendingCount(t) ==
    Cardinality({ci \in Channels \X (1 .. MaxChannelTasks) :
                    /\ ci[2] <= Len(chan_tasks[ci[1]])
                    /\ chan_tasks[ci[1]][ci[2]] = t})

\* the workers that have popped task t and are servicing it
HoldersOf(t) == {w \in ChannelWorkers : chw[w].pc = "service" /\ chw[w].task = t}

\* C28: every task queued on a channel is in one place only: once in one
\* pending list, or popped and in the hands of one worker, or serviced, once
\* and by one worker; no task is serviced twice and no two workers service
\* the same task, however the workers' steps interleave.
C28_TaskServicedOnceByOneWorker ==
    \A t \in 1 .. nQueued :
        /\ Len(servicedBy[t]) <= 1
        /\ Cardinality(HoldersOf(t)) <= 1
        /\ PendingCount(t) + Cardinality(HoldersOf(t)) + Len(servicedBy[t]) = 1

\* C28's case: both workers are servicing tasks at the same time, after an
\* earlier task has been serviced.
C28_Witness ==
    /\ \A w \in ChannelWorkers : chw[w].pc = "service"
    /\ \E t \in 1 .. nQueued : Len(servicedBy[t]) = 1

(***************************************************************************)
(* Claims about the order of the subscriber's messages.                    *)
(***************************************************************************)
\* C29: the handler is invoked on the received messages in the order the
\* socket delivered them, which is the order of publication, and one at a
\* time: when a message is received, the pre-hook, the handler and the
\* post-hook of every earlier message have been called, and while the loop
\* waits for a message nothing received is left unhandled.
C29_HandledInOrderOneAtATime ==
    /\ \A i \in 1 .. Len(recvLog) : recvLog[i] = i
    /\ Len(HandlerCalls) <= Len(recvLog)
    /\ \A i \in 1 .. Len(HandlerCalls) : HandlerCalls[i].msg = recvLog[i]
    /\ Len(calls) >= 3 * (Len(recvLog) - 1)
    /\ subPc \in {"loop", "poll"} => Len(calls) = 3 * Len(recvLog)

\* C29's case: the second message was published while the first was being
\* handled and waits until the post-hook of the first has been called.
C29_Witness ==
    /\ subPc = "after"
    /\ Len(recvLog) = 1
    /\ Len(HandlerCalls) = 1
    /\ inbox = <<2>>

(***************************************************************************)
(* Claims about workers that fail to start.                                *)
(***************************************************************************)
\* C31: every thread number in the thread table belongs to a thread that is
\* starting, running its task loop or on its way to deregister; a worker
\* whose BrokerClient could not be created or started is not in the table.
C31_TableHoldsLiveWorkersOnly ==
    \A n \in threads : wpc[n] \in {"start", "loop", "service", "exit", "dereg"}

(***************************************************************************)
(* Claims about polls that return no message.                              *)
(***************************************************************************)
\* C32: the hooks and the handler are called only for a message received in
\* the same turn of the loop: there are never more than three calls per
\* received message, no message is handed to the handler twice, and nothing
\* is dispatched before a first message was received.
C32_DispatchOnlyWhatWasReceived ==
    /\ Len(calls) <= 3 * Len(recvLog)
    /\ \A i, j \in 1 .. Len(HandlerCalls) :
          i # j => HandlerCalls[i].msg # HandlerCalls[j].msg
    /\ subPc \in {"before", "handler", "after"} => recvLog # <<>>

(***************************************************************************)
(* Claims about a channel whose task raised.                               *)
(***************************************************************************)
\* the channels waiting in the dispatcher's queue, and those a worker is
\* servicing
QueuedChannels == {dispatcherQueue[i] : i \in 1 .. Len(dispatcherQueue)}
HeldChannels == {chw[w].channel : w \in {v \in ChannelWorkers : chw[v].pc # "loop"}}

\* task t's service has been run
Serviced(t) == t <= Len(servicedBy) /\ Len(servicedBy[t]) >= 1

\* C33: the step in which a task raises out of task.service puts the task's
\* channel at the end of the dispatcher's queue and sends the worker back to
\* its loop; a channel with pending tasks is always waiting in the
\* dispatcher's queue or being serviced, so every pending task is serviced
\* in the end; and a task that raised is never pending or run again.
C33_ChannelReAddedAfterRaise ==
    /\ [][\A w \in ChannelWorkers :
            (/\ chw[w].pc = "service"
             /\ Len(servicedBy'[chw[w].task]) > Len(servicedBy[chw[w].task])
             /\ servicedBy'[chw[w].task][Len(servicedBy'[chw[w].task])].raised)
                => /\ dispatcherQueue' = Append(dispatcherQueue, chw[w].channel)
                   /\ chw'[w].pc = "loop"]_vars
    /\ [](\A ch \in Channels :
            chan_tasks[ch] # <<>> => ch \in QueuedChannels \cup HeldChannels)
    /\ [](\A t \in 1 .. nQueued :
            (Serviced(t) /\ servicedBy[t][1].raised)
                => /\ Len(servicedBy[t]) = 1
                   /\ PendingCount(t) = 0
                   /\ HoldersOf(t) = {})
    /\ \A t \in 1 .. MaxChannelTasks : (t <= nQueued) ~> Serviced(t)

\* C33's case: a task raised, and a later task of the same channel was then
\* serviced by the other worker.
C33_Witness ==
    \E t \in 1 .. nQueued, u \in 1 .. nQueued :
        /\ t < u
        /\ Serviced(t) /\ servicedBy[t][1].raised
        /\ Serviced(u)
        /\ servicedBy[u][1].channel = servicedBy[t][1].channel
        /\ servicedBy[u][1].worker # servicedBy[t][1].worker

====
